---- MODULE Spec2Model ----
(***************************************************************************)
(* The claims ingestion pipeline of the ERISA dashboard: the management    *)
(* command load_claims_data (Command.handle) and the upload view           *)
(* (DataUploadView.post) loading a claims file and a details file into the *)
(* Claim / ClaimDetail / DataUpload tables; the reviewers' flag and note    *)
(* requests and the dashboard reading the Claim table while an import runs. *)
(***************************************************************************)
EXTENDS Integers, Sequences, FiniteSets, TLC

VARIABLES
    claims,     \* table Claim: set of rows [claim_id, billed_amount, paid_amount, status]
    details,    \* table ClaimDetail: set of rows [claim, denial_reason, cpt_codes]
    uploads,    \* table DataUpload: sequence of rows [upload_type], oldest first
    before,     \* the tables as they were when the running import began
    imp,        \* the import in progress: position, inputs, local counters
    flags,      \* table ClaimFlag: set of rows [id, claim, user, flag_type, reason, is_active]
    notes,      \* table ClaimNote: set of rows [id, claim, user, note]
    seen,       \* what a dashboard request read while the import ran
    seq,        \* table sqlite_sequence: the last id given out per table
    parse,      \* one source file on its way through a reader and a loader
    sev,        \* a claim and its derived payment figures
    race        \* two imports upserting claims at the same time

\* the reviewers' tables
annotations == <<flags, notes>>

\* the state the ingestion pipeline never writes
\* the state of the stand-alone parts of the model
apart == <<parse, sev, race>>

aside == <<seen, seq, apart>>

vars == <<claims, details, uploads, before, imp, flags, notes, seen, seq, parse, sev, race>>

----------------------------------------------------------------------------
\* Bounds of the model
MaxClaimRows == 2      \* data rows per claims file
MaxDetailRows == 1     \* data rows per details file
MaxImports == 2        \* imports started on new files
MaxFlags == 2          \* ClaimFlag rows ever created
MaxNotes == 1          \* ClaimNote rows ever created
MaxParseRows == 2      \* data lines of a source file given to a reader
MaxRaceRows == 2       \* claims rows of each of two concurrent imports
MaxAmount == 100       \* largest amount, in whole currency units, of a claim
                       \* whose derived figures are computed

ClaimIds == {"C1", "C2"}

\* Python's None, which csv.DictReader stores for a column a short row lacks
\* (restval); no text of a file equals it.
NoneVal == "<None>"

----------------------------------------------------------------------------
\* Text to value conversions

\* decimal.Decimal(text) / DecimalField.to_python(text): the amounts the files
\* of this model contain, in whole currency units.  Text outside the domain
\* is not a number.
DecimalTexts == {"-1", "0", "1", "2"}

Decimal(text) ==
    CASE text = "-1" -> -1
      [] text = "0" -> 0
      [] text = "1" -> 1
      [] text = "2" -> 2

\* datetime.strptime(text, '%Y-%m-%d'): "ok" when the text is such a date,
\* "TypeError" when the argument is None, "ValueError" for any other text.
Strptime(text) ==
    IF text = NoneVal THEN "TypeError"
    ELSE IF text \in {"2024-01-01"} THEN "ok"
    ELSE "ValueError"

STATUS_CHOICES == {"Paid", "Denied", "Under Review"}

----------------------------------------------------------------------------
\* Input files.  A claims data row as csv.DictReader yields it: the text of
\* each column, NoneVal for discharge_date (the last column) when the row has
\* fewer fields than the header.  patient_name and insurer_name are copied
\* unread and are left out.
ClaimRowKinds == {
    [billed_amount |-> "2",   paid_amount |-> "1",  status |-> "Denied", discharge_date |-> "2024-01-01"],
    [billed_amount |-> "1",   paid_amount |-> "2",  status |-> "Paid",   discharge_date |-> "2024-01-01"],
    [billed_amount |-> "0",   paid_amount |-> "1",  status |-> "Paid",   discharge_date |-> "2024-01-01"],
    [billed_amount |-> "1",   paid_amount |-> "-1", status |-> "Paid",   discharge_date |-> "2024-01-01"],
    [billed_amount |-> "abc", paid_amount |-> "1",  status |-> "Paid",   discharge_date |-> "2024-01-01"],
    [billed_amount |-> "2",   paid_amount |-> "1",  status |-> "Bogus",  discharge_date |-> "2024-01-01"],
    [billed_amount |-> "2",   paid_amount |-> "1",  status |-> "Paid",   discharge_date |-> "01/01/2024"],
    [billed_amount |-> "2",   paid_amount |-> "1",  status |-> "Paid",   discharge_date |-> NoneVal] }

ClaimRows ==
    { [id |-> i, billed_amount |-> k.billed_amount, paid_amount |-> k.paid_amount,
       status |-> k.status, discharge_date |-> k.discharge_date] :
      i \in ClaimIds, k \in ClaimRowKinds }

\* The rows of a claims file: any of the rows above under a full header; under
\* a header without the discharge_date column the rows are otherwise valid, so
\* that the missing column is their only fault (the model keeps the
\* discharge_date field of such a row, and no operator reads it).
ClaimRowsOf(hasDate) ==
    IF hasDate THEN ClaimRows
    ELSE { r \in ClaimRows : r.billed_amount = "2" /\ r.status = "Denied" }

\* A details data row: cpt_codes (the last column) is NoneVal in a short row.
DetailRows ==
    [claim_id : ClaimIds, denial_reason : {"auth"}, cpt_codes : {"99213", NoneVal}]

\* Header of a details file: all three columns, or the claim_id column absent.
DetailHeaders == {"full", "no_claim_id"}

\* The rows of a details file: under the header without claim_id the rows have
\* every field of that header (the model keeps the claim_id field of such a
\* row, and the lookup never reads it).
DetailRowsOf(hdr) ==
    IF hdr = "full" THEN DetailRows
    ELSE { r \in DetailRows : r.cpt_codes # NoneVal }

----------------------------------------------------------------------------
\* Claim model validation

\* Claim.clean: the paid <= billed rule, applied only when both amounts are
\* truthy (a Decimal zero is falsy).
ClaimClean(billed, paid) ==
    IF paid # 0 /\ billed # 0 /\ paid > billed THEN "ValidationError" ELSE "ok"

\* (field validation that accepts everything)
ClaimCleanFieldsNone(billed, paid, status) == "ok"

\* Model.clean_fields on numeric amounts: MinValueValidator(0) on both
\* amounts and the choices of status.
ClaimCleanFields(billed, paid, status) ==
    IF billed < 0 \/ paid < 0 \/ status \notin STATUS_CHOICES
    THEN "ValidationError" ELSE "ok"

\* Claim.save -> full_clean on numeric amounts: clean_fields, then clean.
ClaimFullClean(billed, paid, status) ==
    IF ClaimCleanFields(billed, paid, status) # "ok" THEN "ValidationError"
    ELSE ClaimClean(billed, paid)

\* full_clean as the upload view reaches it, with the amounts still text:
\* clean_fields converts each amount (DecimalField.to_python) and leaves the
\* text in place when it is no number; clean then compares what is there, and
\* a Decimal compared with text raises TypeError.
ClaimFullCleanText(billedText, paidText, status) ==
    LET bn == billedText \in DecimalTexts
        pn == paidText \in DecimalTexts
    IN  IF bn /\ pn
        THEN ClaimFullClean(Decimal(billedText), Decimal(paidText), status)
        ELSE IF bn /\ ~pn THEN (IF Decimal(billedText) # 0 THEN "TypeError" ELSE "ValidationError")
        ELSE IF pn /\ ~bn THEN (IF Decimal(paidText) # 0 THEN "TypeError" ELSE "ValidationError")
        ELSE "ValidationError"

----------------------------------------------------------------------------
\* What one claims row does, per entry point: "ok" or the exception raised.

\* Command._load_claims, the body of the try block up to update_or_create.
CommandClaimRowResult(hasDate, row) ==
    IF ~hasDate THEN "KeyError"
    ELSE IF Strptime(row.discharge_date) # "ok" THEN Strptime(row.discharge_date)
    ELSE IF row.billed_amount \notin DecimalTexts \/ row.paid_amount \notin DecimalTexts
         THEN "InvalidOperation"
    ELSE ClaimFullClean(Decimal(row.billed_amount), Decimal(row.paid_amount), row.status)

\* DataUploadView._process_claims_file, the body of the try block.
ViewClaimRowResult(hasDate, row) ==
    IF ~hasDate THEN "KeyError"
    ELSE IF Strptime(row.discharge_date) # "ok" THEN Strptime(row.discharge_date)
    ELSE ClaimFullCleanText(row.billed_amount, row.paid_amount, row.status)

\* The exceptions each row loop catches (the row is skipped); any other
\* exception leaves the loop.
CommandClaimCaught == {"ValueError", "InvalidOperation", "KeyError"}
ViewClaimCaught == {"ValueError", "KeyError"}

ClaimRowResult(entry, hasDate, row) ==
    IF entry = "command" THEN CommandClaimRowResult(hasDate, row)
    ELSE ViewClaimRowResult(hasDate, row)

ClaimCaught(entry) ==
    IF entry = "command" THEN CommandClaimCaught ELSE ViewClaimCaught

\* "accept", "skip" or "abort" for one claims row
ClaimRowOutcome(entry, hasDate, row) ==
    LET r == ClaimRowResult(entry, hasDate, row)
    IN  IF r = "ok" THEN "accept"
        ELSE IF r \in ClaimCaught(entry) THEN "skip"
        ELSE "abort"

\* Claim.objects.update_or_create(claim_id=..., defaults=...): the stored row
\* for a claims row, and the table after the upsert.
ClaimOf(row) ==
    [claim_id |-> row.id, billed_amount |-> Decimal(row.billed_amount),
     paid_amount |-> Decimal(row.paid_amount), status |-> row.status]

\* (a lookup that never matches)
ClaimExistsNever(cs, id) == FALSE

ClaimExists(cs, id) == \E c \in cs : c.claim_id = id

UpdateOrCreateClaim(cs, row) ==
    IF ClaimExists(cs, row.id)
    THEN { IF c.claim_id = row.id THEN ClaimOf(row) ELSE c : c \in cs }
    ELSE cs \cup {ClaimOf(row)}

----------------------------------------------------------------------------
\* What one details row does, per entry point.

\* row.get('cpt_codes', ''): the headers of this model have the column, so
\* the value is the field of the row, None for a short row.
DetailCptCodes(hdr, row) ==
    row.cpt_codes

\* Command._load_claim_details and DataUploadView._process_details_file, the
\* body of the try block: the claim lookup, then ClaimDetail update_or_create;
\* cpt_codes is a NOT NULL column and ClaimDetail.save validates nothing, so
\* None reaches the database.
DetailRowResult(hdr, row, cs) ==
    IF hdr = "no_claim_id" THEN "KeyError"
    ELSE IF ~ClaimExists(cs, row.claim_id) THEN "DoesNotExist"
    ELSE IF DetailCptCodes(hdr, row) = NoneVal THEN "IntegrityError"
    ELSE "ok"

CommandDetailCaught == {"DoesNotExist", "KeyError"}
ViewDetailCaught == {"DoesNotExist", "KeyError"}

DetailCaught(entry) ==
    IF entry = "command" THEN CommandDetailCaught ELSE ViewDetailCaught

DetailRowOutcome(entry, hdr, row, cs) ==
    LET r == DetailRowResult(hdr, row, cs)
    IN  IF r = "ok" THEN "accept"
        ELSE IF r \in DetailCaught(entry) THEN "skip"
        ELSE "abort"

DetailOf(hdr, row) ==
    [claim |-> row.claim_id, denial_reason |-> row.denial_reason,
     cpt_codes |-> DetailCptCodes(hdr, row)]

DetailExists(ds, id) == \E d \in ds : d.claim = id

\* ClaimDetail.objects.update_or_create(claim=claim, defaults=...)
UpdateOrCreateDetail(ds, hdr, row) ==
    IF DetailExists(ds, row.claim_id)
    THEN { IF d.claim = row.claim_id THEN DetailOf(hdr, row) ELSE d : d \in ds }
    ELSE ds \cup {DetailOf(hdr, row)}

\* (a delete that leaves the details behind)
DeleteAllClaimsNoCascade(cs, ds) ==
    [claims |-> {}, details |-> ds]

\* (a delete that deletes nothing)
DeleteAllClaimsKeep(cs, ds) ==
    [claims |-> cs, details |-> ds]

\* Claim.objects.all().delete(): every claim goes, and with it (on_delete =
\* CASCADE) every detail that refers to a deleted claim.
DeleteAllClaims(cs, ds) ==
    [claims |-> {}, details |-> { d \in ds : ~ClaimExists(cs, d.claim) }]

\* The counters each loader returns: the command counts a row only when
\* update_or_create created the row, the view counts every accepted row.
CountStep(entry, created) ==
    IF entry = "command" THEN (IF created THEN 1 ELSE 0) ELSE 1

\* The skipped rows each loader leaves a line about: the command writes a
\* warning for every skipped row, the view continues without one.
ReportStep(entry) ==
    IF entry = "command" THEN 1 ELSE 0

\* (an upload_type that ignores the mode)
UploadTypeAppend(entry, mode) == "append"

\* upload_type of the DataUpload row
UploadType(entry, mode) ==
    IF entry = "command" THEN (IF mode = "overwrite" THEN "overwrite" ELSE "append")
    ELSE mode

\* The modes each entry point can be given: argparse choices for the command,
\* any POST parameter for the view.
Modes(entry) ==
    IF entry = "command" THEN {"append", "overwrite"}
    ELSE {"append", "overwrite", "other"}

----------------------------------------------------------------------------
\* State

Entries == {"command", "view"}

\* imp.last before any row was read
NoRow == [id |-> "none"]

\* imp: pc is the position of the import, phase the part of the import it is
\* in; entry, mode, hasDate (the claims header has a discharge_date column)
\* and dhdr (the details header) are its inputs; count and dcount are the
\* counters the loaders return; read, dread, accepted, daccepted, created,
\* written (the claims the accepted rows stored) and reported (the skipped
\* rows a line was written about) record what the loops did; last is the row read
\* last, error the exception that ended the import; n counts imports started;
\* purged tells that the import deleted the claims before it loaded.
IdleImp ==
    [pc |-> "idle", entry |-> "command", mode |-> "append", hasDate |-> TRUE,
     dhdr |-> "full", read |-> 0, dread |-> 0, count |-> 0, dcount |-> 0,
     accepted |-> 0, created |-> 0, written |-> {}, daccepted |-> 0,
     reported |-> 0, phase |-> "idle", n |-> 0, last |-> NoRow, error |-> "none",
     purged |-> FALSE]

Store ==
    [claims |-> claims, details |-> details, uploads |-> uploads,
     flags |-> flags, notes |-> notes]

\* seen before a dashboard request read anything
NotRead == [read |-> FALSE]

Ended == imp.pc \in {"idle", "done", "failed", "rejected"}

\* parse, sev and race while their parts of the model are not run
NoParse == [pc |-> "none"]
NoSev == [pc |-> "none"]
NoRace == [pc |-> "none"]

InitPipeline ==
    /\ claims = {}
    /\ details = {}
    /\ uploads = <<>>
    /\ flags = {}
    /\ notes = {}
    /\ before = [claims |-> {}, details |-> {}, uploads |-> <<>>,
                 flags |-> {}, notes |-> {}]
    /\ imp = IdleImp
    /\ seen = NotRead
    /\ seq = [flag |-> 0, note |-> 0]

Init ==
    /\ InitPipeline
    /\ parse = NoParse
    /\ sev = NoSev
    /\ race = NoRace

----------------------------------------------------------------------------
\* Actions

\* Command.handle lines 41-44 / DataUploadView.post lines 246-248: a missing
\* file ends the request before anything is read or written.
RejectInputs ==
    /\ Ended
    /\ imp.n < MaxImports
    /\ imp' = [IdleImp EXCEPT !.pc = "rejected", !.n = imp.n + 1]
    /\ before' = Store
    /\ seen' = NotRead
    /\ UNCHANGED <<claims, details, uploads, flags, notes, seq, apart>>

\* An import begins: Command.handle enters transaction.atomic(),
\* DataUploadView.post enters its try block.
StartImport ==
    /\ Ended
    /\ imp.n < MaxImports
    /\ \E e \in Entries, h \in BOOLEAN :
         \E m \in Modes(e) :
            imp' = [IdleImp EXCEPT !.pc = "purge", !.entry = e, !.mode = m,
                                   !.hasDate = h, !.phase = "claims",
                                   !.n = imp.n + 1]
    /\ before' = Store
    /\ seen' = NotRead
    /\ UNCHANGED <<claims, details, uploads, flags, notes, seq, apart>>

\* Command.handle lines 52-55: Claim.objects.all().delete(), then
\* ClaimDetail.objects.all().delete()
CommandPurge(cs, ds) ==
    [claims |-> DeleteAllClaims(cs, ds).claims, details |-> {}]

\* (a purge that is skipped)
ViewPurgeSkip(cs, ds) ==
    [claims |-> cs, details |-> ds]

\* _process_claims_file lines 280-281: Claim.objects.all().delete()
ViewPurge(cs, ds) ==
    DeleteAllClaims(cs, ds)

PurgeResult(entry, cs, ds) ==
    IF entry = "command" THEN CommandPurge(cs, ds) ELSE ViewPurge(cs, ds)

\* ClaimFlag.claim and ClaimNote.claim are ForeignKeys with on_delete =
\* CASCADE: deleting the claims cs deletes every flag / note of one of them.
\* (a delete that leaves the flags behind)
CascadeFlagsKeep(cs, fs) == fs

CascadeFlags(cs, fs) == { f \in fs : ~ClaimExists(cs, f.claim) }
CascadeNotes(cs, ns) == { n \in ns : ~ClaimExists(cs, n.claim) }

Purge ==
    /\ imp.pc = "purge"
    /\ IF imp.mode = "overwrite"
       THEN /\ claims' = PurgeResult(imp.entry, claims, details).claims
            /\ details' = PurgeResult(imp.entry, claims, details).details
            /\ flags' = CascadeFlags(claims \ PurgeResult(imp.entry, claims, details).claims, flags)
            /\ notes' = CascadeNotes(claims \ PurgeResult(imp.entry, claims, details).claims, notes)
            /\ imp' = [imp EXCEPT !.pc = "claims", !.purged = TRUE]
       ELSE /\ UNCHANGED <<claims, details, flags, notes>>
            /\ imp' = [imp EXCEPT !.pc = "claims"]
    /\ UNCHANGED <<uploads, before, seen, seq, apart>>

\* The tables after an exception left the import: transaction.atomic() of the
\* command rolls back to the state at its start; the view has no transaction
\* and keeps what was written.
AfterAbort(entry) ==
    IF entry = "command" THEN before ELSE Store

\* One iteration of the claims row loop
ClaimRow ==
    /\ imp.pc = "claims"
    /\ imp.read < MaxClaimRows
    /\ \E row \in ClaimRowsOf(imp.hasDate) :
         LET out == ClaimRowOutcome(imp.entry, imp.hasDate, row)
             made == ~ClaimExists(claims, row.id)
         IN  CASE out = "accept" ->
                  /\ claims' = UpdateOrCreateClaim(claims, row)
                  /\ imp' = [imp EXCEPT !.read = @ + 1, !.last = row,
                                        !.accepted = @ + 1,
                                        !.written = @ \cup {ClaimOf(row)},
                                        !.created = @ + (IF made THEN 1 ELSE 0),
                                        !.count = @ + CountStep(imp.entry, made)]
                  /\ UNCHANGED <<details, uploads, flags, notes>>
             [] out = "skip" ->
                  /\ imp' = [imp EXCEPT !.read = @ + 1, !.last = row,
                                        !.reported = @ + ReportStep(imp.entry)]
                  /\ UNCHANGED <<claims, details, uploads, flags, notes>>
             [] out = "abort" ->
                  /\ claims' = AfterAbort(imp.entry).claims
                  /\ details' = AfterAbort(imp.entry).details
                  /\ uploads' = AfterAbort(imp.entry).uploads
                  /\ flags' = AfterAbort(imp.entry).flags
                  /\ notes' = AfterAbort(imp.entry).notes
                  /\ imp' = [imp EXCEPT !.read = @ + 1, !.last = row, !.pc = "failed",
                                        !.error = ClaimRowResult(imp.entry, imp.hasDate, row)]
    /\ UNCHANGED <<before, aside>>

\* The claims reader is exhausted; the details file is opened.
ClaimsEOF ==
    /\ imp.pc = "claims"
    /\ \E h \in DetailHeaders :
          imp' = [imp EXCEPT !.pc = "details", !.phase = "details", !.dhdr = h,
                             !.last = NoRow]
    /\ UNCHANGED <<claims, details, uploads, before, annotations, aside>>

\* One iteration of the details row loop
DetailRow ==
    /\ imp.pc = "details"
    /\ imp.dread < MaxDetailRows
    /\ \E row \in DetailRowsOf(imp.dhdr) :
         LET out == DetailRowOutcome(imp.entry, imp.dhdr, row, claims)
             made == ~DetailExists(details, row.claim_id)
         IN  CASE out = "accept" ->
                  /\ details' = UpdateOrCreateDetail(details, imp.dhdr, row)
                  /\ imp' = [imp EXCEPT !.dread = @ + 1, !.last = row,
                                        !.daccepted = @ + 1,
                                        !.dcount = @ + CountStep(imp.entry, made)]
                  /\ UNCHANGED <<claims, uploads, flags, notes>>
             [] out = "skip" ->
                  /\ imp' = [imp EXCEPT !.dread = @ + 1, !.last = row,
                                        !.reported = @ + ReportStep(imp.entry)]
                  /\ UNCHANGED <<claims, details, uploads, flags, notes>>
             [] out = "abort" ->
                  /\ claims' = AfterAbort(imp.entry).claims
                  /\ details' = AfterAbort(imp.entry).details
                  /\ uploads' = AfterAbort(imp.entry).uploads
                  /\ flags' = AfterAbort(imp.entry).flags
                  /\ notes' = AfterAbort(imp.entry).notes
                  /\ imp' = [imp EXCEPT !.dread = @ + 1, !.last = row, !.pc = "failed",
                                        !.error = DetailRowResult(imp.dhdr, row, claims)]
    /\ UNCHANGED <<before, aside>>

\* The DataUpload row both entry points create
SummaryRow(entry, mode) ==
    [upload_type |-> UploadType(entry, mode)]

\* The details reader is exhausted and the loader returns; then
\* DataUpload.objects.create(...), after which the command's transaction
\* commits and the view redirects.
RecordSummary ==
    /\ imp.pc = "details"
    /\ uploads' = Append(uploads, SummaryRow(imp.entry, imp.mode))
    /\ imp' = [imp EXCEPT !.pc = "done", !.phase = "summary", !.last = NoRow]
    /\ UNCHANGED <<claims, details, before, annotations, aside>>

Next ==
    \/ RejectInputs
    \/ StartImport
    \/ Purge
    \/ ClaimRow
    \/ ClaimsEOF
    \/ DetailRow
    \/ RecordSummary

Spec == Init /\ [][Next]_vars

----------------------------------------------------------------------------
\* The dashboard beside a running import

\* The Claim table a request on another connection reads: the writes of the
\* command sit in transaction.atomic() and are not visible before it commits;
\* DataUploadView.post opens no transaction and each of its writes is visible
\* at once.
VisibleClaims ==
    IF imp.entry = "command" /\ ~Ended THEN before.claims ELSE claims

\* DashboardView.get_context_data: a query on Claim.objects of a request
\* served while the import runs; seen keeps the claim set of one such query
\* per import.
DashboardRead ==
    /\ ~Ended
    /\ seen = NotRead
    /\ seen' = [read |-> TRUE, claims |-> VisibleClaims]
    /\ UNCHANGED <<claims, details, uploads, before, imp, flags, notes, seq, apart>>

NextDash ==
    \/ Next
    \/ DashboardRead

SpecDash == Init /\ [][NextDash]_vars

----------------------------------------------------------------------------
\* The reviewers' requests: flags and notes on stored claims

\* request.user, POST flag_type, POST reason, POST note_text
Users == {"alice"}
FlagTypes == {"review"}
Reasons == {"r1", "r2"}
NoteTexts == {"n1"}

\* The reviewers' requests are served between imports, up to the last
\* import: a write beside a running command waits for its transaction to end,
\* and the requests are not interleaved with the steps of an upload either.
WriterFree == Ended /\ imp.n < MaxImports

\* (a lookup that never matches)
FlagExistsNever(fs, c, u, t) == FALSE

\* the lookup of ClaimFlag.objects.get_or_create(claim, user, flag_type)
FlagExists(fs, c, u, t) ==
    \E f \in fs : f.claim = c /\ f.user = u /\ f.flag_type = t

\* add_flag_htmx, POST by user u for claim c, flag type t, reason r:
\* get_object_or_404 on the claim (a 404 changes nothing), then get_or_create
\* on (claim, user, flag_type); a flag that was there is made active with the
\* submitted reason and saved.
AddFlagRequest(c, u, t, r) ==
    /\ WriterFree
    /\ ClaimExists(claims, c)
    /\ IF FlagExists(flags, c, u, t)
       THEN /\ flags' = { IF f.claim = c /\ f.user = u /\ f.flag_type = t
                          THEN [f EXCEPT !.is_active = TRUE, !.reason = r]
                          ELSE f : f \in flags }
            /\ seq' = seq
       ELSE /\ seq.flag < MaxFlags
            /\ flags' = flags \cup {[id |-> seq.flag + 1, claim |-> c, user |-> u,
                                     flag_type |-> t, reason |-> r,
                                     is_active |-> TRUE]}
            /\ seq' = [seq EXCEPT !.flag = @ + 1]
    /\ UNCHANGED <<claims, details, uploads, before, imp, notes, seen, apart>>

AddFlag ==
    \E c \in ClaimIds, u \in Users, t \in FlagTypes, r \in Reasons :
        AddFlagRequest(c, u, t, r)

\* remove_flag_htmx by user u for flag id i: get_object_or_404(ClaimFlag,
\* id=flag_id, user=request.user), then is_active = False and save.
RemoveFlagRequest(i, u) ==
    /\ WriterFree
    /\ \E f \in flags : f.id = i /\ f.user = u
    /\ flags' = { IF g.id = i THEN [g EXCEPT !.is_active = FALSE] ELSE g : g \in flags }
    /\ UNCHANGED <<claims, details, uploads, before, imp, notes, seen, seq, apart>>

RemoveFlag ==
    \E i \in 1..MaxFlags, u \in Users : RemoveFlagRequest(i, u)

\* add_note_htmx, POST with a note text: ClaimNote.objects.create
AddNote ==
    /\ WriterFree
    /\ seq.note < MaxNotes
    /\ \E c \in ClaimIds, u \in Users, x \in NoteTexts :
          /\ ClaimExists(claims, c)
          /\ notes' = notes \cup {[id |-> seq.note + 1, claim |-> c, user |-> u,
                                   note |-> x]}
          /\ seq' = [seq EXCEPT !.note = @ + 1]
    /\ UNCHANGED <<claims, details, uploads, before, imp, flags, seen, apart>>

NextReview ==
    \/ Next
    \/ AddFlag
    \/ RemoveFlag
    \/ AddNote

\* The reviewers work on a loaded store: the state after imports that stored
\* both claims, with one import still to come.
LoadedClaims ==
    { [claim_id |-> i, billed_amount |-> 2, paid_amount |-> 1, status |-> "Denied"] :
      i \in ClaimIds }

InitReview ==
    /\ claims = LoadedClaims
    /\ details = {}
    /\ uploads = <<[upload_type |-> "append"]>>
    /\ flags = {}
    /\ notes = {}
    /\ before = [claims |-> {}, details |-> {}, uploads |-> <<>>,
                 flags |-> {}, notes |-> {}]
    /\ imp = [IdleImp EXCEPT !.pc = "done", !.phase = "summary",
                             !.read = MaxClaimRows, !.accepted = MaxClaimRows,
                             !.created = 2, !.count = 2, !.written = LoadedClaims,
                             !.n = MaxImports - 1]
    /\ seen = NotRead
    /\ seq = [flag |-> 0, note |-> 0]
    /\ parse = NoParse
    /\ sev = NoSev
    /\ race = NoRace

SpecReview == InitReview /\ [][NextReview]_vars

----------------------------------------------------------------------------
\* The claims loaders as functions of the table and the rows of the file

\* Command._load_claims / DataUploadView._process_claims_file: the row loop
\* over the rows of one file, from the table cs.  aborted tells that an
\* exception left the loop; the rows after it are not read.
RECURSIVE LoadClaims(_, _, _, _)
LoadClaims(entry, hasDate, cs, rows) ==
    IF rows = <<>>
    THEN [claims |-> cs, created |-> 0, accepted |-> 0, aborted |-> FALSE]
    ELSE LET row == Head(rows)
             out == ClaimRowOutcome(entry, hasDate, row)
         IN  CASE out = "abort" ->
                    [claims |-> cs, created |-> 0, accepted |-> 0, aborted |-> TRUE]
               [] out = "skip" -> LoadClaims(entry, hasDate, cs, Tail(rows))
               [] out = "accept" ->
                    LET rest == LoadClaims(entry, hasDate,
                                           UpdateOrCreateClaim(cs, row), Tail(rows))
                    IN  [rest EXCEPT !.created = @ + (IF ClaimExists(cs, row.id) THEN 0 ELSE 1),
                                     !.accepted = @ + 1]

\* The claims table an append import that read rows leaves, were the details
\* file empty: the loaded table, or for the command, whose transaction rolls
\* back, the table cs when the loop was left by an exception.
ClaimsAfterAppend(entry, hasDate, cs, rows) ==
    LET r == LoadClaims(entry, hasDate, cs, rows)
    IN  IF r.aborted /\ entry = "command" THEN cs ELSE r.claims

\* The claims files of the model
ClaimSources(hasDate) ==
    UNION { [1..k -> ClaimRowsOf(hasDate)] : k \in 0..MaxClaimRows }

----------------------------------------------------------------------------
\* The readers: from the lines of a source file to the rows of the loaders

\* A line of a source file is a sequence of tokens, each a piece of text
\* without a delimiter or one of the two delimiter characters.
Pipe == "|"
Comma == ","

\* the line that holds the texts fields with the delimiter d between them
RECURSIVE JoinLine(_, _)
JoinLine(fields, d) ==
    IF fields = <<>> THEN <<>>
    ELSE IF Len(fields) = 1 THEN <<fields[1]>>
    ELSE <<fields[1], d>> \o JoinLine(Tail(fields), d)

\* csv.reader on one line with delimiter d: the fields, each the tokens
\* between two occurrences of d (another delimiter character is text).
RECURSIVE SplitLine(_, _)
SplitLine(line, d) ==
    IF line = <<>> THEN << <<>> >>
    ELSE LET rest == SplitLine(Tail(line), d)
         IN  IF Head(line) = d THEN << <<>> >> \o rest
             ELSE << <<Head(line)>> \o Head(rest) >> \o Tail(rest)

\* DataUploadView._detect_delimiter
DetectDelimiter(header_line) ==
    IF \E i \in 1..Len(header_line) : header_line[i] = Pipe THEN Pipe ELSE Comma

\* The delimiter each entry point gives csv.DictReader: the command always
\* '|', the view the one detected in the first line.
Delimiter(entry, header_line) ==
    IF entry = "command" THEN Pipe ELSE DetectDelimiter(header_line)

\* csv.DictReader: the row as a mapping from the fields of the header to the
\* fields of the line, None (restval) for the columns the line is short of.
DictRow(columns, fields) ==
    [ c \in { columns[i] : i \in 1..Len(columns) } |->
        LET i == CHOOSE j \in 1..Len(columns) : columns[j] = c
        IN  IF i <= Len(fields) THEN fields[i] ELSE <<NoneVal>> ]

\* row[name]: the text of the column, or KeyError
HasColumn(dict, name) == <<name>> \in DOMAIN dict

\* the text of a field: one token, or text that holds a delimiter character
TextOf(field) == IF Len(field) = 1 THEN field[1] ELSE "<text>"

ClaimColumns == <<"id", "billed_amount", "paid_amount", "status", "discharge_date">>
DetailColumns == <<"claim_id", "denial_reason", "cpt_codes">>

\* The claims row / details row of the loaders for a mapping that has every
\* column; for one that lacks a column the loaders raise KeyError before
\* they read further, and the row is NoRow.
ParsedClaimRow(dict) ==
    IF \A i \in 1..Len(ClaimColumns) : HasColumn(dict, ClaimColumns[i])
    THEN [id |-> TextOf(dict[<<"id">>]),
          billed_amount |-> TextOf(dict[<<"billed_amount">>]),
          paid_amount |-> TextOf(dict[<<"paid_amount">>]),
          status |-> TextOf(dict[<<"status">>]),
          discharge_date |-> TextOf(dict[<<"discharge_date">>])]
    ELSE NoRow

ParsedDetailRow(dict) ==
    IF \A i \in 1..Len(DetailColumns) : HasColumn(dict, DetailColumns[i])
    THEN [claim_id |-> TextOf(dict[<<"claim_id">>]),
          denial_reason |-> TextOf(dict[<<"denial_reason">>]),
          cpt_codes |-> TextOf(dict[<<"cpt_codes">>])]
    ELSE NoRow

\* The source files given to the readers: a header with every column and
\* valid data lines, written with either delimiter.
ValidClaimFields ==
    { <<i, "2", "1", "Denied", "2024-01-01">> : i \in ClaimIds }
ValidDetailFields ==
    { <<i, "auth", "99213">> : i \in ClaimIds }

SourceFields(kind) ==
    IF kind = "claims" THEN ValidClaimFields ELSE ValidDetailFields

SourceColumns(kind) ==
    IF kind = "claims" THEN ClaimColumns ELSE DetailColumns

SourceFiles(kind, d) ==
    { <<JoinLine(SourceColumns(kind), d)>> \o
         [i \in 1..Len(body) |-> JoinLine(body[i], d)] :
      body \in UNION { [1..k -> SourceFields(kind)] : k \in 0..MaxParseRows } }

\* The details loaders over the rows of one file, on the Claim table cs: the
\* number of rows accepted before the end of the file or an exception.
RECURSIVE CountDetails(_, _, _, _)
CountDetails(entry, hdr, cs, rows) ==
    IF rows = <<>> THEN 0
    ELSE LET out == DetailRowOutcome(entry, hdr, Head(rows), cs)
         IN  CASE out = "abort" -> 0
               [] out = "skip" -> CountDetails(entry, hdr, cs, Tail(rows))
               [] out = "accept" -> 1 + CountDetails(entry, hdr, cs, Tail(rows))

InitParse ==
    /\ InitPipeline
    /\ sev = NoSev
    /\ race = NoRace
    /\ \E e \in Entries, k \in {"claims", "details"}, d \in {Pipe, Comma} :
          \E f \in SourceFiles(k, d) :
             parse = [pc |-> "source", entry |-> e, kind |-> k, lines |-> f,
                      used |-> "none", dicts |-> <<>>, accepted |-> 0]

\* csv.DictReader(f, delimiter=...) and the iteration over it
ReadSource ==
    /\ parse.pc = "source"
    /\ LET d == Delimiter(parse.entry, parse.lines[1])
           columns == SplitLine(parse.lines[1], d)
       IN  parse' = [parse EXCEPT
                       !.pc = "parsed", !.used = d,
                       !.dicts = [i \in 1..(Len(parse.lines) - 1) |->
                                    DictRow(columns, SplitLine(parse.lines[i + 1], d))]]
    /\ UNCHANGED <<claims, details, uploads, before, imp, flags, notes, seen, seq, sev, race>>

\* The row loop of the loader over the rows read: the claims loaders on an
\* empty Claim table, the details loaders on a table that holds the claims.
LoadParsed ==
    /\ parse.pc = "parsed"
    /\ LET n == Len(parse.dicts)
           hasDate == \A i \in 1..n : HasColumn(parse.dicts[i], "discharge_date")
           hdr == IF \A i \in 1..n : HasColumn(parse.dicts[i], "claim_id")
                  THEN "full" ELSE "no_claim_id"
       IN  parse' = [parse EXCEPT
                       !.pc = "loaded",
                       !.accepted =
                          IF parse.kind = "claims"
                          THEN LoadClaims(parse.entry, hasDate, {},
                                          [i \in 1..n |-> ParsedClaimRow(parse.dicts[i])]).accepted
                          ELSE CountDetails(parse.entry, hdr, LoadedClaims,
                                            [i \in 1..n |-> ParsedDetailRow(parse.dicts[i])])]
    /\ UNCHANGED <<claims, details, uploads, before, imp, flags, notes, seen, seq, sev, race>>

NextParse ==
    \/ ReadSource
    \/ LoadParsed

SpecParse == InitParse /\ [][NextParse]_vars

----------------------------------------------------------------------------
\* Two imports at once: Claim.objects.update_or_create step by step

\* The two imports, and the claims rows they bring (rows both loaders accept)
Racers == {"a", "b"}

RaceRows ==
    { r \in ClaimRows : /\ ClaimRowOutcome("command", TRUE, r) = "accept"
                        /\ ClaimRowOutcome("view", TRUE, r) = "accept" }

\* (a table without a unique key)
UniqueViolationNever(cs, id) == FALSE

\* Claim.claim_id is unique: validate_unique in full_clean and the UNIQUE
\* constraint of the column refuse a second row with a stored claim_id.
UniqueViolation(cs, id) == ClaimExists(cs, id)

InitRace ==
    /\ InitPipeline
    /\ parse = NoParse
    /\ sev = NoSev
    /\ race = [p \in Racers |->
                 [pc |-> "next", row |-> NoRow, done |-> 0, hit |-> "none"]]

\* what the upserts leave alone
offRace == <<details, uploads, before, imp, flags, notes, seen, seq, parse, sev>>

\* the row loop takes the next row of the file
RaceNextRow(p) ==
    /\ race[p].pc = "next"
    /\ race[p].done < MaxRaceRows
    /\ \E r \in RaceRows : race' = [race EXCEPT ![p].pc = "get", ![p].row = r]
    /\ UNCHANGED <<claims, offRace>>

\* get_or_create: self.get(claim_id=...)
RaceGet(p) ==
    /\ race[p].pc = "get"
    /\ race' = [race EXCEPT ![p].pc =
                   IF ClaimExists(claims, race[p].row.id) THEN "update" ELSE "validate"]
    /\ UNCHANGED <<claims, offRace>>

\* get_or_create: self.create(...) -> Claim.save -> full_clean, whose
\* validate_unique raises ValidationError when the claim_id is stored by
\* now; no handler of the loaders catches it and the import ends.
RaceValidate(p) ==
    /\ race[p].pc = "validate"
    /\ race' = [race EXCEPT
                   ![p].pc = IF UniqueViolation(claims, race[p].row.id)
                             THEN "failed" ELSE "insert",
                   ![p].hit = IF UniqueViolation(claims, race[p].row.id)
                              THEN "ValidationError" ELSE @]
    /\ UNCHANGED <<claims, offRace>>

\* get_or_create: the INSERT of self.create(...); an IntegrityError of the
\* unique key is caught, the row is fetched again and update_or_create goes
\* on to update it.
RaceInsert(p) ==
    /\ race[p].pc = "insert"
    /\ IF UniqueViolation(claims, race[p].row.id)
       THEN /\ race' = [race EXCEPT ![p].pc = "update", ![p].hit = "IntegrityError"]
            /\ UNCHANGED claims
       ELSE /\ claims' = claims \cup {ClaimOf(race[p].row)}
            /\ race' = [race EXCEPT ![p].pc = "next", ![p].done = @ + 1]
    /\ UNCHANGED offRace

\* update_or_create: setattr of the defaults on the row found, obj.save()
RaceUpdate(p) ==
    /\ race[p].pc = "update"
    /\ claims' = { IF c.claim_id = race[p].row.id THEN ClaimOf(race[p].row) ELSE c :
                   c \in claims }
    /\ race' = [race EXCEPT ![p].pc = "next", ![p].done = @ + 1]
    /\ UNCHANGED offRace

NextRace ==
    \E p \in Racers :
        \/ RaceNextRow(p)
        \/ RaceGet(p)
        \/ RaceValidate(p)
        \/ RaceInsert(p)
        \/ RaceUpdate(p)

SpecRace == InitRace /\ [][NextRace]_vars

----------------------------------------------------------------------------
\* The derived payment figures of a stored claim

\* Claim.underpayment_amount
UnderpaymentAmount(billed, paid) == billed - paid

\* Claim.payment_percentage: (paid / billed) * 100 when billed > 0, else 0,
\* kept as the exact ratio num / den.  The code converts the Decimal to a
\* float; for amounts of at most 10 digits the float lies on the same side
\* of 50, 80 and 95 as the exact ratio, and equals them when the ratio does.
PaymentPercentage(billed, paid) ==
    IF billed > 0 THEN [num |-> paid * 100, den |-> billed]
    ELSE [num |-> 0, den |-> 1]

\* percentage >= k
AtLeast(percentage, k) == percentage.num >= k * percentage.den

\* (underpaid below 95 percent)
IsUnderpaidBelow95(percentage) == ~AtLeast(percentage, 95)

\* Claim.is_underpaid: payment_percentage < 80.0
IsUnderpaid(percentage) == ~AtLeast(percentage, 80)

\* Claim.get_underpayment_severity
GetUnderpaymentSeverity(percentage) ==
    IF AtLeast(percentage, 95) THEN "none"
    ELSE IF AtLeast(percentage, 80) THEN "low"
    ELSE IF AtLeast(percentage, 50) THEN "medium"
    ELSE "high"

\* The amounts of a stored claim: those Claim.save accepts.
StoredAmounts ==
    { a \in (0..MaxAmount) \X (0..MaxAmount) : ClaimFullClean(a[1], a[2], "Paid") = "ok" }

InitSev ==
    /\ InitPipeline
    /\ parse = NoParse
    /\ race = NoRace
    /\ \E a \in StoredAmounts :
          sev = [pc |-> "stored", billed_amount |-> a[1], paid_amount |-> a[2]]

\* The properties of the claim are read.
Derive ==
    /\ sev.pc = "stored"
    /\ LET percentage == PaymentPercentage(sev.billed_amount, sev.paid_amount)
       IN  sev' = [pc |-> "derived",
                   billed_amount |-> sev.billed_amount,
                   paid_amount |-> sev.paid_amount,
                   underpayment_amount |->
                       UnderpaymentAmount(sev.billed_amount, sev.paid_amount),
                   payment_percentage |-> percentage,
                   is_underpaid |-> IsUnderpaid(percentage),
                   severity |-> GetUnderpaymentSeverity(percentage)]
    /\ UNCHANGED <<claims, details, uploads, before, imp, flags, notes, seen, seq,
                   parse, race>>

NextSev ==
    \/ Derive

SpecSev == InitSev /\ [][NextSev]_vars

----------------------------------------------------------------------------
\* Properties

ClaimIdsOf(cs) == { c.claim_id : c \in cs }

\* imp.last is a claims row / a details row
LastIsClaimRow == imp.phase = "claims" /\ imp.last # NoRow
LastIsDetailRow == imp.phase = "details" /\ imp.last # NoRow

NumericAmounts(row) ==
    row.billed_amount \in DecimalTexts /\ row.paid_amount \in DecimalTexts

PaidExceedsBilled(row) ==
    NumericAmounts(row) /\ Decimal(row.paid_amount) > Decimal(row.billed_amount)

NegativeAmount(row) ==
    NumericAmounts(row) /\ (Decimal(row.paid_amount) < 0 \/ Decimal(row.billed_amount) < 0)

\* C1: an import that ended with an error left the Claim, ClaimDetail and
\* DataUpload tables exactly as they were when it began.
C1_FailedImportLeavesNoTrace ==
    imp.pc = "failed" => Store = before

\* C2: a claims row whose only fault is paid > billed, a negative amount or a
\* non-numeric amount never ends the import with an error.
C2_InvalidAmountRowNeverAborts ==
    ( /\ LastIsClaimRow
      /\ imp.hasDate
      /\ Strptime(imp.last.discharge_date) = "ok"
      /\ imp.last.status \in STATUS_CHOICES
      /\ \/ PaidExceedsBilled(imp.last)
         \/ NegativeAmount(imp.last)
         \/ ~NumericAmounts(imp.last) )
    => imp.pc # "failed"

\* C3: the step that reads a claims row with paid_amount > billed_amount
\* stores nothing for it: the Claim table is as it was before the row (or as
\* it was before the import, when the import is rolled back).
C3_OverpaidRowPersistsNothing ==
    [][ ( /\ imp.pc = "claims"
          /\ imp'.read = imp.read + 1
          /\ PaidExceedsBilled(imp'.last) )
        => (claims' = claims \/ claims' = before.claims) ]_vars

\* C4: a row with fewer fields than the header (no discharge_date in a claims
\* row, no cpt_codes in a details row) is skipped: it never ends the import
\* with an error.
C4_ShortRowIsSkipped ==
    ( \/ LastIsClaimRow /\ imp.hasDate /\ imp.last.discharge_date = NoneVal
      \/ LastIsDetailRow /\ imp.last.cpt_codes = NoneVal )
    => imp.pc # "failed"

C6_OverwriteKeepsOnlyAccepted ==
    (imp.pc = "done" /\ imp.mode = "overwrite") =>
        /\ ClaimIdsOf(claims) = ClaimIdsOf(imp.written)
        /\ claims \subseteq imp.written
        /\ imp.accepted = 0 => (claims = {} /\ details = {})

\* C6 witness: a successful overwrite import on a table that held a claim the
\* file does not bring back, with an accepted row and with a detail before.
C6_Witness ==
    /\ imp.pc = "done" /\ imp.mode = "overwrite"
    /\ imp.accepted > 0
    /\ before.details # {}
    /\ ~(ClaimIdsOf(before.claims) \subseteq ClaimIdsOf(claims))

\* C7 as claimed: in overwrite mode the number of claims created equals the
\* number of accepted rows.
C7_EveryAcceptedRowCreates ==
    (imp.mode = "overwrite" /\ imp.pc \in {"claims", "details", "done"}) =>
        imp.created = imp.accepted

\* C7 amended: in overwrite mode the number of claims created equals the
\* number of distinct claim identifiers among the accepted rows.
C7_CreatedIsDistinctAccepted ==
    (imp.mode = "overwrite" /\ imp.pc \in {"claims", "details", "done"}) =>
        imp.created = Cardinality(ClaimIdsOf(imp.written))

\* C7 witness: a successful overwrite import, on a table that held claims,
\* whose file repeats a claim identifier on two accepted rows.
C7_Witness ==
    /\ imp.pc = "done" /\ imp.mode = "overwrite"
    /\ before.claims # {}
    /\ imp.accepted = 2 /\ imp.created = 1

\* Each ClaimDetail belongs to exactly one stored Claim and no Claim has two
\* ClaimDetails.
DetailsHaveOneClaim ==
    /\ \A d \in details : Cardinality({ c \in claims : c.claim_id = d.claim }) = 1
    /\ \A c \in claims : Cardinality({ d \in details : d.claim = c.claim_id }) <= 1

\* The step that reads a details row whose claim_id matches no stored claim
\* changes no ClaimDetail and leaves the import in its details loop.
OrphanRowStep ==
    ( /\ imp.pc = "details"
      /\ imp'.dread = imp.dread + 1
      /\ ~ClaimExists(claims, imp'.last.claim_id) )
    => (details' = details /\ imp'.pc = "details")

\* C8: the step that reads a details row whose claim_id matches no stored
\* claim changes no ClaimDetail and does not end the import; and in every
\* state each ClaimDetail belongs to exactly one stored Claim and no Claim has
\* two ClaimDetails.
C8_OrphanDetailSkipped ==
    [](DetailsHaveOneClaim) /\ [][OrphanRowStep]_vars

\* C8 witness: a details row for a claim_id that is not stored was read while
\* another claim has its detail.
C8_Witness ==
    /\ LastIsDetailRow
    /\ imp.dhdr = "full"
    /\ ~ClaimExists(claims, imp.last.claim_id)
    /\ details # {}

\* C9: a finished import has added exactly one DataUpload row, whose
\* upload_type is its mode; an import that is running, failed or was refused
\* has added none.
C9_OneUploadPerSuccess ==
    /\ imp.pc = "done" =>
          /\ Len(uploads) = Len(before.uploads) + 1
          /\ SubSeq(uploads, 1, Len(before.uploads)) = before.uploads
          /\ uploads[Len(uploads)].upload_type = imp.mode
    /\ imp.pc # "done" => uploads = before.uploads

\* C9 witness: an overwrite import finished although every row it read was
\* rejected.
C9_Witness ==
    /\ imp.pc = "done" /\ imp.mode = "overwrite"
    /\ imp.read > 0 /\ imp.dread > 0
    /\ imp.accepted = 0 /\ imp.daccepted = 0

\* C10: when an import has finished, the rows it accepted plus the rows it
\* left a line about are the rows it read.
C10_EverySkippedRowReported ==
    imp.pc = "done" =>
        imp.accepted + imp.daccepted + imp.reported = imp.read + imp.dread

\* C11: the claim set a dashboard query read while an import ran is the Claim
\* table as it was when the import began or as it is when the import has
\* ended.
C11_DashboardSeesNoIntermediate ==
    (imp.pc \in {"done", "failed"} /\ seen # NotRead) =>
        seen.claims \in {before.claims, claims}

\* the (claim, user, flag_type) triple of a flag
Triple(f) == <<f.claim, f.user, f.flag_type>>

FlagIds(fs) == { f.id : f \in fs }

\* At most one ClaimFlag per triple, and per id.
OneFlagPerTriple ==
    \A f, g \in flags : (Triple(f) = Triple(g) \/ f.id = g.id) => f = g

\* An add-flag request for a triple that has a flag keeps the ids of the
\* table and every other flag, and leaves that flag active with the reason
\* submitted.
AddFlagOnExistingStep ==
    \A c \in ClaimIds, u \in Users, t \in FlagTypes, r \in Reasons :
        ( /\ AddFlagRequest(c, u, t, r)
          /\ \E f \in flags : Triple(f) = <<c, u, t>> )
        => /\ FlagIds(flags') = FlagIds(flags)
           /\ Cardinality(flags') = Cardinality(flags)
           /\ \A f \in flags : Triple(f) # <<c, u, t>> => f \in flags'
           /\ \A f \in flags : Triple(f) = <<c, u, t>> =>
                  [f EXCEPT !.is_active = TRUE, !.reason = r] \in flags'

\* A remove-flag request deletes no flag and changes nothing but is_active
\* of the flag it names, which it sets to false.
RemoveFlagStep ==
    \A i \in 1..MaxFlags, u \in Users :
        RemoveFlagRequest(i, u)
        => /\ Cardinality(flags') = Cardinality(flags)
           /\ \A f \in flags :
                  IF f.id = i THEN [f EXCEPT !.is_active = FALSE] \in flags'
                  ELSE f \in flags'

\* C12: in every state at most one ClaimFlag exists per (claim, user,
\* flag_type) triple; an add-flag request for a triple that has a flag,
\* active or not, creates no record and leaves that flag active with the
\* submitted reason; a remove-flag request only sets is_active to false and
\* deletes no record.
C12_OneFlagPerTriple ==
    /\ [](OneFlagPerTriple)
    /\ [][AddFlagOnExistingStep]_vars
    /\ [][RemoveFlagStep]_vars

\* C12 witness: both claims were flagged, one flag was removed and stays
\* stored inactive, the other is active.
C12_Witness ==
    /\ Cardinality(flags) = 2
    /\ \E f, g \in flags : ~f.is_active /\ g.is_active /\ g.reason = "r2"

NoteIds(ns) == { n.id : n \in ns }

\* A step of an append import leaves the ClaimFlag and ClaimNote tables as
\* they are.
AppendImportStep ==
    (imp' # imp /\ imp'.pc # "rejected" /\ imp'.mode = "append")
    => (flags' = flags /\ notes' = notes)

\* After a successful overwrite import no flag and no note that was stored
\* when it began is stored.
OverwriteDropsAnnotations ==
    (imp.pc = "done" /\ imp.mode = "overwrite") =>
        /\ FlagIds(flags) \cap FlagIds(before.flags) = {}
        /\ NoteIds(notes) \cap NoteIds(before.notes) = {}

\* C19: every step of an append import leaves every ClaimFlag and ClaimNote
\* unchanged; after a successful overwrite import no ClaimFlag and no
\* ClaimNote that existed when it began is left, whether or not the import
\* stored the claim identifier again.
C19_AnnotationsFollowClaims ==
    [](OverwriteDropsAnnotations) /\ [][AppendImportStep]_vars

\* C19 witness: a successful overwrite import began with a flag and a note
\* on a claim whose identifier it stored again.
C19_Witness ==
    /\ imp.pc = "done" /\ imp.mode = "overwrite"
    /\ \E f \in before.flags : ClaimExists(claims, f.claim)
    /\ \E n \in before.notes : ClaimExists(claims, n.claim)

\* C13: a reader uses the pipe as delimiter when the header line holds a
\* pipe and the comma otherwise, in both entry points and for both sources;
\* so every line of a source of valid lines is accepted, whichever of the
\* two delimiters the source is written with.
C13_DelimiterDetected ==
    parse.pc = "loaded" =>
        /\ parse.used = (IF \E i \in 1..Len(parse.lines[1]) : parse.lines[1][i] = "|"
                         THEN "|" ELSE ",")
        /\ parse.accepted = Len(parse.lines) - 1

\* C14: the claims count and the details count a finished import reports
\* and stores are the numbers of claims rows and details rows it accepted.
C14_CountsAreAcceptedRows ==
    imp.pc = "done" =>
        (imp.count = imp.accepted /\ imp.dcount = imp.daccepted)

\* Every stored claim has non-negative amounts and a status of the
\* enumeration.
StoredClaimsValid ==
    \A c \in claims :
        /\ c.billed_amount >= 0
        /\ c.paid_amount >= 0
        /\ c.status \in {"Paid", "Denied", "Under Review"}

\* The step that reads a claims row with a negative amount or a status
\* outside the enumeration stores nothing for it.
InvalidRowStep ==
    ( /\ imp.pc = "claims"
      /\ imp'.read = imp.read + 1
      /\ \/ NegativeAmount(imp'.last)
         \/ imp'.last.status \notin {"Paid", "Denied", "Under Review"} )
    => (claims' = claims \/ claims' = before.claims)

\* C15: in every state reached through imports every stored claim has
\* billed_amount >= 0, paid_amount >= 0 and a status among Paid, Denied and
\* Under Review; the step that reads a row with a negative amount or another
\* status stores nothing for it.
C15_StoredClaimsValid ==
    [](StoredClaimsValid) /\ [][InvalidRowStep]_vars

\* C15 witness: a row with a negative amount or a status outside the
\* enumeration was read by an import, and claims are stored.
C15_Witness ==
    /\ LastIsClaimRow
    /\ imp.hasDate
    /\ NegativeAmount(imp.last) \/ imp.last.status = "Bogus"
    /\ claims # {}

\* No two stored claims share a claim_id.
ClaimIdUnique ==
    \A c, d \in claims : c.claim_id = d.claim_id => c = d

\* A step of an upsert that found the claim stored adds and removes no
\* claim_id, and changes no claim but the one with the claim_id of its row.
UpsertFoundStep ==
    \A p \in Racers :
        (race[p].pc = "update" /\ race'[p].pc = "next")
        => /\ ClaimIdsOf(claims') = ClaimIdsOf(claims)
           /\ \A c \in claims : c.claim_id # race[p].row.id => c \in claims'

\* C16: in every state, also while two imports upsert the same identifiers
\* step by step, no two stored claims share a claim_id; and an upsert that
\* finds the claim stored changes its other fields only, never a claim_id.
C16_ClaimIdUniqueImmutable ==
    [](ClaimIdUnique) /\ [][UpsertFoundStep]_vars

\* C16 witness: both imports tried to create the same claim; the INSERT of
\* one hit the unique key, and it has updated the row of the other.
C16_Witness ==
    \E p, q \in Racers :
        /\ p # q
        /\ race[p].hit = "IntegrityError" /\ race[p].pc = "next" /\ race[p].done = 1
        /\ race[q].done = 1 /\ race[q].row.id = race[p].row.id
        /\ ClaimOf(race[p].row) \in claims
        /\ ClaimOf(race[q].row) \notin claims

\* The phases of one import follow each other as purge, claims, details,
\* summary: the purge step comes before any row, a claims row is read only
\* before every details row, and the DataUpload row is written from the
\* details phase.
PhaseOrderStep ==
    /\ (imp.pc = "purge" /\ imp'.pc # "purge") =>
           (imp.read = 0 /\ imp.dread = 0 /\ imp'.pc = "claims")
    /\ (imp'.read = imp.read + 1) => (imp.pc = "claims" /\ imp.dread = 0)
    /\ (imp'.dread = imp.dread + 1) => (imp.pc = "details" /\ imp'.read = imp.read)
    /\ (uploads' # uploads /\ imp'.pc = "done") => imp.pc = "details"

\* The step that reads a details row whose claim_id is that of a claims row
\* accepted in the same import accepts the row.
DetailOfAcceptedClaimStep ==
    ( /\ imp.pc = "details"
      /\ imp'.dread = imp.dread + 1
      /\ imp.dhdr = "full"
      /\ imp'.last.claim_id \in ClaimIdsOf(imp.written) )
    => imp'.daccepted = imp.daccepted + 1

\* C17: within one import the phases occur in the order purge, load claims,
\* load details, record summary, no details row being read before the last
\* claims row; and a details row that references a claim accepted earlier in
\* the same import is accepted.
C17_ClaimsBeforeDetails ==
    [][PhaseOrderStep]_vars /\ [][DetailOfAcceptedClaimStep]_vars

\* The order of the phases alone
PhasesInOrder == [][PhaseOrderStep]_vars

\* the payment percentage of the claim in sev is at least k: paid * 100 /
\* billed when billed > 0, and 0 when billed = 0
PercentAtLeast(k) ==
    IF sev.billed_amount > 0 THEN sev.paid_amount * 100 >= k * sev.billed_amount
    ELSE 0 >= k

\* C18: for a stored claim the severity is 'none' iff the percentage is at
\* least 95, 'low' iff it is at least 80 and below 95, 'medium' iff it is at
\* least 50 and below 80, 'high' iff it is below 50; is_underpaid is true
\* exactly for 'medium' and 'high'; billed 100 and paid 60 give underpayment
\* 40, percentage 60 and severity 'medium'.
C18_SeverityTiers ==
    sev.pc = "derived" =>
        /\ sev.severity = "none" <=> PercentAtLeast(95)
        /\ sev.severity = "low" <=> (PercentAtLeast(80) /\ ~PercentAtLeast(95))
        /\ sev.severity = "medium" <=> (PercentAtLeast(50) /\ ~PercentAtLeast(80))
        /\ sev.severity = "high" <=> ~PercentAtLeast(50)
        /\ sev.is_underpaid <=> sev.severity \in {"medium", "high"}
        /\ (sev.billed_amount = 100 /\ sev.paid_amount = 60) =>
               /\ sev.underpayment_amount = 40
               /\ sev.payment_percentage.num = 60 * sev.payment_percentage.den
               /\ sev.severity = "medium"

\* C18 witness: the figures of the claim with billed 100 and paid 60 were
\* computed.
C18_Witness ==
    /\ sev.pc = "derived"
    /\ sev.billed_amount = 100 /\ sev.paid_amount = 60
    /\ sev.is_underpaid

\* DataUpload.UPLOAD_TYPES
UploadTypes == {"initial", "append", "overwrite"}

\* C20: every DataUpload row has an upload_type among initial, append and
\* overwrite; the row of a finished import says overwrite exactly when the
\* import purged the claims first.
C20_RecordedModeIsExecutedMode ==
    /\ \A i \in 1..Len(uploads) : uploads[i].upload_type \in UploadTypes
    /\ imp.pc = "done" =>
          (uploads[Len(uploads)].upload_type = "overwrite" <=> imp.purged)

====
